---- MODULE Spec2Model ----
(***************************************************************************)
(* gobox: run (main.go) selecting a command, and xargs (cmd_xargs.go).     *)
(* xargsCmd is modelled from flag parsing through reading os.Stdin to the  *)
(* empty-input cases; executeReplaceMode and executeAppendMode are         *)
(* modelled statement by statement: the dispatch loop (semaphore send,     *)
(* wg.Add, go, <-ready), the goroutine body (ready send, argv              *)
(* construction, cmd.Run, lastErr under mu, deferred semaphore receive,    *)
(* deferred wg.Done) and wg.Wait/return.                                   *)
(* A Go string is a sequence of one-character strings.                     *)
(***************************************************************************)
EXTENDS Integers, Sequences, FiniteSets, TLC

VARIABLES
    args,           \* run's args (os.Args[1:]), only args[0] is represented
    flagErr,        \* xargsFlags.Parse: "none" | "help" (flag.ErrHelp) | "error"
    stdin,          \* the bytes of os.Stdin
    readErrAt,      \* -1: os.Stdin reads to EOF; k >= 0: the read fails after k bytes
    delimiter,      \* -d flag
    noRun,          \* -r flag
    verbose,        \* -v flag
    cuts,           \* how os.Stdin is delivered: the byte counts after which a
                    \* Read call returns (a cut at k: a read ends after byte k)
    scanned,        \* history: the tokens scanner.Text() returned, in order
    baseCmd,        \* []string: cmdArgs, the command template
    inputs,         \* []string: the tokens read from stdin
    replaceString,  \* string: the placeholder ("" selects append mode)
    numArgs,        \* -n flag
    maxProcs,       \* -P flag
    mode,           \* "none" | "replace" | "append": which execute* function runs
    batchSize,      \* executeAppendMode's batchSize after line 157-159
    mainpc,         \* position of the dispatching goroutine
    i,              \* loop offset into inputs (0-based, as in the source)
    semaphore,      \* number of elements buffered in the semaphore channel
    wg,             \* sync.WaitGroup counter
    mu,             \* sync.Mutex: 0 = unlocked, j = held by goroutine j
    lastErr,        \* 0 = nil, j = the error returned by goroutine j's cmd.Run
    g,              \* the goroutines started by the loop, in spawn order: pc, the
                    \* argument, cmdArgs, err (the if statement's variable), and the
                    \* history fields runs (cmd.Run calls), failed (err was
                    \* non-nil) and echoes (lines written with -v)
    recOrder,       \* history: the goroutines in the order they wrote lastErr
    bare,           \* the command of lines 91-95: cmdArgs, runs (cmd.Run
                    \* calls), failed (cmd.Run returned an error), echoes
    result,         \* the error returned by xargsCmd: 0 = nil, j > 0 = goroutine
                    \* j's error, ErrScan, ErrBare, ErrFlag; -1 = not yet
    exitCode        \* the value returned by run (-1 = not yet)

vars == <<args, flagErr, stdin, readErrAt, delimiter, noRun, verbose, cuts,
          scanned, baseCmd, inputs, replaceString, numArgs, maxProcs, mode,
          batchSize, mainpc, i, semaphore, wg, mu, lastErr, g, recOrder, bare,
          result, exitCode>>

\* what run and xargsCmd only read
params == <<args, flagErr, stdin, readErrAt, delimiter, noRun, verbose, cuts,
            replaceString, numArgs, maxProcs>>

\* what the dispatch loop and all of a goroutine but its argv construction
\* leave alone
front == <<params, scanned, baseCmd, inputs, bare, exitCode>>

----------------------------------------------------------------------------
(* Bounds *)

MaxTokens == 3
MaxProcs == 2
MaxNumArgs == 2
MaxBuildTokens == 5
MaxDupTokens == 2
MaxBuildNumArgs == 3
MaxStream == 4
MaxScanStream == 4

----------------------------------------------------------------------------
(* Strings *)

Str(c) == <<c>>

RECURSIVE Concat(_)
Concat(ss) == IF ss = <<>> THEN <<>> ELSE Head(ss) \o Concat(Tail(ss))

HasPrefix(s, p) == Len(p) <= Len(s) /\ SubSeq(s, 1, Len(p)) = p

\* strings.ReplaceAll(s, old, new) for a non-empty old: left-to-right,
\* non-overlapping occurrences.  (Replace mode is entered only when the
\* placeholder is non-empty, cmd_xargs.go:99.)
RECURSIVE ReplaceAll(_, _, _)
ReplaceAll(s, old, new) ==
    IF s = <<>> THEN <<>>
    ELSE IF HasPrefix(s, old)
         THEN new \o ReplaceAll(SubSeq(s, Len(old) + 1, Len(s)), old, new)
         ELSE <<Head(s)>> \o ReplaceAll(Tail(s), old, new)

SeqsUpTo(S, n) == UNION {[1..k -> S] : k \in 1..n}

\* strings.Index(s, sep) for a non-empty sep: the 0-based position of the
\* first occurrence, -1 when there is none
Index(s, sep) ==
    LET P == {p \in 0..(Len(s) - Len(sep)) : SubSeq(s, p + 1, p + Len(sep)) = sep}
    IN  IF P = {} THEN 0 - 1 ELSE CHOOSE p \in P : \A q \in P : p <= q

\* strings.Contains(s, sub)
Contains(s, sub) == Index(s, sub) >= 0

\* strings.Replace(s, old, new, 1): the first occurrence only
ReplaceFirst(s, old, new) ==
    IF Index(s, old) < 0 THEN s
    ELSE SubSeq(s, 1, Index(s, old)) \o new
         \o SubSeq(s, Index(s, old) + Len(old) + 1, Len(s))

\* strings.Join(elems, sep)
RECURSIVE Join(_, _)
Join(elems, sep) ==
    IF elems = <<>> THEN <<>>
    ELSE IF Len(elems) = 1 THEN elems[1]
    ELSE elems[1] \o sep \o Join(Tail(elems), sep)

\* the white space unicode.IsSpace knows, as far as the streams use it
WhiteSpace == {" ", "\t", "\n", "\r"}

\* strings.TrimSpace(s): s from its first to its last character that is
\* not white space
TrimSpace(s) ==
    LET P == {k \in 1..Len(s) : s[k] \notin WhiteSpace}
    IN  IF P = {} THEN <<>>
        ELSE SubSeq(s, CHOOSE k \in P : \A m \in P : k <= m,
                       CHOOSE k \in P : \A m \in P : m <= k)

----------------------------------------------------------------------------
(* Inputs of the checked configurations *)

TokenChars == <<"a", "b", "c", "d", "e">>

\* k-th token of the canonical input a, b, c, d, e, a, ...
Token(k) == Str(TokenChars[((k - 1) % Len(TokenChars)) + 1])

Tokens(n) == [k \in 1..n |-> Token(k)]

Placeholder == Str("X")

ReplaceTemplate == <<Str("e"), Placeholder>>

AppendTemplate == <<Str("p")>>

\* os.Stdin holding the given lines, each ended by a newline
Lines(lines) == Concat([k \in 1..Len(lines) |-> lines[k] \o <<"\n">>])

\* args[0] for the cases of run's switch that call no command function:
\* no argument at all, help, version, an unknown word
OtherArgs == {<<>>, <<"help">>, <<"--help">>, <<"-h">>, <<"version">>, <<"-v">>,
              <<"bogus">>, <<"">>}

----------------------------------------------------------------------------
(* run: the switch over args[0] and the exit codes *)

ExitOK == 0

ExitUsage == 1

ExitError == 2

ExitUnknown == 127

\* the cases that call a command function
Commands == {"find", "du", "ps", "top", "iostat", "netstat", "xargs"}

HelpWords == {"--help", "-h", "help"}

VersionWords == {"--version", "version", "-v"}

\* the value run returns, given args and whether the command function
\* returned an error
RunCode(a, failed) ==
    IF Len(a) < 1 THEN ExitUsage
    ELSE IF a[1] \in Commands THEN (IF failed THEN ExitError ELSE ExitOK)
    ELSE IF a[1] \in HelpWords THEN ExitOK
    ELSE IF a[1] \in VersionWords THEN ExitOK
    ELSE ExitUnknown

----------------------------------------------------------------------------
(* xargsCmd: reading os.Stdin, the empty-input cases *)

\* errors xargsCmd returns that come from no goroutine: the scanner's, the
\* directly run command's, the flag parser's
ErrScan == 0 - 2

ErrBare == 0 - 3

ErrFlag == 0 - 4

\* the bytes the scanner gets: all of os.Stdin, or those before the failed read
Delivered == IF readErrAt < 0 THEN stdin ELSE SubSeq(stdin, 1, readErrAt)

\* mutant: what is buffered is returned as a token when it holds no
\* delimiter, at the end of the input or not
SplitFuncEager(data, atEOF, d) ==
    IF Len(data) = 0 THEN [advance |-> 0, some |-> FALSE, token |-> <<>>]
    ELSE IF Index(data, d) >= 0
         THEN [advance |-> Index(data, d) + Len(d), some |-> TRUE,
               token |-> SubSeq(data, 1, Index(data, d))]
         ELSE [advance |-> Len(data), some |-> TRUE, token |-> data]

\* the function makeDelimiterSplitFunc(d) returns, d non-empty: advance and
\* the token; some is FALSE for a nil token (more data is asked for)
SplitFunc(data, atEOF, d) ==
    IF Len(data) = 0 THEN [advance |-> 0, some |-> FALSE, token |-> <<>>]
    ELSE IF Index(data, d) >= 0
         THEN [advance |-> Index(data, d) + Len(d), some |-> TRUE,
               token |-> SubSeq(data, 1, Index(data, d))]
         ELSE IF atEOF
              THEN [advance |-> Len(data), some |-> TRUE, token |-> data]
              ELSE [advance |-> 0, some |-> FALSE, token |-> <<>>]

\* the tokens of a bufio.Scanner with that split function over data that
\* arrives in reads ending at the cuts cs.  From[k, e, eof] is the tokens
\* still to come when k bytes are consumed and e bytes buffered: Scan
\* calls the split function on the buffered bytes (or on none, at the
\* end); without a token it reads on, and at the end of the input (a
\* failed read ends it as EOF does) calls the split function with atEOF.
ScanTokens(data, cs, d) ==
    LET Ends == (cs \cap 1..Len(data)) \cup {Len(data)}
        From[k \in 0..Len(data), e \in 0..Len(data), eof \in BOOLEAN] ==
            IF (e > k \/ eof) /\ SplitFunc(SubSeq(data, k + 1, e), eof, d).some
            THEN <<SplitFunc(SubSeq(data, k + 1, e), eof, d).token>>
                 \o From[k + SplitFunc(SubSeq(data, k + 1, e), eof, d).advance, e, eof]
            ELSE IF eof THEN <<>>
            ELSE IF e < Len(data)
                 THEN From[k, CHOOSE c \in Ends : c > e /\ \A b \in Ends : b > e => c <= b,
                           FALSE]
                 ELSE From[k, e, TRUE]
    IN  From[0, 0, FALSE]

\* the same, the data arriving in one read
SplitTokens(data, d) == ScanTokens(data, {}, d)

\* bufio's dropCR
DropCR(s) ==
    IF s # <<>> /\ s[Len(s)] = "\r" THEN SubSeq(s, 1, Len(s) - 1) ELSE s

\* the tokens of a bufio.Scanner with the default split function
\* bufio.ScanLines: the lines without their end-of-line marker
ScanLines(data) ==
    [k \in 1..Len(SplitTokens(data, <<"\n">>)) |->
        DropCR(SplitTokens(data, <<"\n">>)[k])]

\* lines 64-68: the split function is replaced when -d is not "\n"
Scan(data, d) ==
    IF d # <<"\n">> THEN ScanTokens(data, cuts, d) ELSE ScanLines(data)

\* mutant: empty lines are appended too
KeepLineAll(line) == TRUE

\* if line != ""
KeepLine(line) == line # <<>>

\* the loop of lines 70-75 over the scanner's tokens
AppendLines(toks) ==
    SelectSeq([k \in 1..Len(toks) |-> TrimSpace(toks[k])], KeepLine)

ReadInputs == AppendLines(Scan(Delivered, delimiter))

\* if *verbose { fmt.Fprintf(os.Stderr, ...) }: lines written
Echoes == IF verbose THEN 1 ELSE 0

\* mutant: scanner.Err() is not looked at
PcAfterReadIgnoreErr(err) == "empty"

\* if err := scanner.Err(); err != nil { return err }
PcAfterRead(err) == IF err THEN "xdone" ELSE "empty"

\* mutant: the command is run on empty input whatever -r says
PcIfEmptyAlwaysRun(nr) == "bare"

\* len(inputs) == 0: return nil with -r, else run the command once
PcIfEmpty(nr) == IF nr THEN "xdone" ELSE "bare"

\* exec.Command(cmdArgs[0], cmdArgs[1:]...)
BareArgs == baseCmd

----------------------------------------------------------------------------
(* The dispatch loop *)

\* mutant: the channel holds one element more than maxProcs
SemaphoreCapPlusOne == maxProcs + 1

\* make(chan struct{}, maxProcs): the capacity of the semaphore channel
SemaphoreCap == maxProcs

\* mutant: the send proceeds only when no goroutine holds an element
SemaphoreCanSendWhenIdle == semaphore = 0 /\ SemaphoreCap > 0

\* semaphore <- struct{}{} can proceed when the buffer has room.  With
\* capacity 0 the send needs a receiver, and the only receivers are the
\* deferred functions of goroutines that are started after a send.
SemaphoreCanSend == semaphore < SemaphoreCap

\* mutant: a non-positive batchSize becomes 1
NormBatchSizeOne(n) == IF n <= 0 THEN 1 ELSE n

\* if batchSize <= 0 { batchSize = len(inputs) }
NormBatchSize(n) == IF n <= 0 THEN Len(inputs) ELSE n

\* loop stride: range over inputs (replace), i += batchSize (append)
Stride == IF mode = "replace" THEN 1 ELSE batchSize

\* loop condition
LoopPc(off) == IF off < Len(inputs) THEN "acquire" ELSE "wait"

\* mutant: the clamp is off by one and drops the last token
BatchEndShort(off) ==
    IF off + batchSize > Len(inputs) THEN Len(inputs) - 1 ELSE off + batchSize

\* end := i + batchSize; if end > len(inputs) { end = len(inputs) }
BatchEnd(off) ==
    IF off + batchSize > Len(inputs) THEN Len(inputs) ELSE off + batchSize

\* the argument of the goroutine: input (replace) or inputs[i:end] (append)
GoArg(off) ==
    IF mode = "replace" THEN inputs[off + 1]
    ELSE SubSeq(inputs, off + 1, BatchEnd(off))

\* mutant: the loop does not wait for the goroutine's ready send
PcAfterGoNoAck == "next"

\* the statement after go func(){...}(): <-ready
PcAfterGo == "recvReady"

\* mutant: return without joining the goroutines
WaitDoneNoJoin == TRUE

\* wg.Wait() returns when the counter is zero
WaitDone == wg = 0

\* mutant: only the first occurrence in each argument is replaced
BuildArgsFirstOnly(arg) ==
    IF mode = "replace"
    THEN [k \in 1..Len(baseCmd) |-> ReplaceFirst(baseCmd[k], replaceString, arg)]
    ELSE baseCmd \o arg

\* cmdArgs as built by the goroutine
BuildArgs(arg) ==
    IF mode = "replace"
    THEN [k \in 1..Len(baseCmd) |-> ReplaceAll(baseCmd[k], replaceString, arg)]
    ELSE baseCmd \o arg

\* mutant: the goroutine builds its argv in baseCmd itself
BaseAfterBuildInPlace(arg) ==
    IF mode = "replace" THEN BuildArgs(arg) ELSE baseCmd

\* cmdArgs := make([]string, len(baseCmd)); copy(cmdArgs, baseCmd): the
\* writes of lines 130-132 and the append of line 187 go to the copy
BaseAfterBuild(arg) == baseCmd

\* mutant: -v is not looked at
PcAfterBuildSilent == "run"

\* if verbose { ... } after the argv is built
PcAfterBuild == IF verbose THEN "echo" ELSE "run"

\* mutant: a failed command is run again
PcAfterRunRetry(failed) == IF failed THEN "run" ELSE "release"

\* if err := cmd.Run(); err != nil { mu.Lock() ...} ; deferred calls follow
PcAfterRun(failed) == IF failed THEN "lock" ELSE "release"

\* mutant: the error is dropped
RecordErrDropped(cur, j) == cur

\* mutant: the error of the goroutine started last is kept
RecordErrMax(cur, j) == IF j > cur THEN j ELSE cur

\* mutant: only the first error is kept
RecordErrFirst(cur, j) == IF cur = 0 THEN j ELSE cur

\* lastErr = err
RecordErr(cur, j) == j

\* mutant: the error path leaves without giving the semaphore unit back
PcAfterUnlockNoRelease == "wgdone"

\* defers run last-in first-out: <-semaphore, then wg.Done()
PcAfterUnlock == "release"

----------------------------------------------------------------------------

TypeOK ==
    /\ mode \in {"none", "replace", "append"}
    /\ mainpc \in {"run", "parse", "read", "empty", "bare", "bareRunning",
                   "xdone", "exited",
                   "call", "acquire", "go", "recvReady", "next", "wait",
                   "done", "panic"}
    /\ flagErr \in {"none", "help", "error"}
    /\ readErrAt \in (0 - 1)..Len(stdin)
    /\ noRun \in BOOLEAN
    /\ verbose \in BOOLEAN
    /\ cuts \subseteq 1..Len(stdin)
    /\ bare.echoes \in 0..1
    /\ bare.runs \in 0..1
    /\ bare.failed \in BOOLEAN
    /\ exitCode \in {0 - 1, ExitOK, ExitUsage, ExitError, ExitUnknown}
    /\ i \in 0..(Len(inputs) + batchSize)
    /\ semaphore \in Nat
    /\ wg \in Nat
    /\ mu \in 0..Len(g)
    /\ lastErr \in 0..Len(g)
    /\ result \in (0 - 1)..Len(g) \cup {ErrScan, ErrBare, ErrFlag}
    /\ \A j \in 1..Len(g) :
          /\ g[j].echoes \in 0..1
          /\ g[j].pc \in {"ready", "echo", "run", "running", "lock", "write",
                          "unlock", "release", "wgdone", "done"}
          /\ g[j].runs \in Nat
          /\ g[j].err \in {"none", "launch", "exit"}
          /\ g[j].failed \in BOOLEAN

InitState ==
    /\ inputs = <<>>
    /\ scanned = <<>>
    /\ bare = [cmdArgs |-> <<>>, runs |-> 0, failed |-> FALSE, echoes |-> 0]
    /\ exitCode = 0 - 1
    /\ mode = "none"
    /\ batchSize = 0
    /\ mainpc = "run"
    /\ i = 0
    /\ semaphore = 0
    /\ wg = 0
    /\ mu = 0
    /\ lastErr = 0
    /\ g = <<>>
    /\ recOrder = <<>>
    /\ result = 0 - 1

\* gobox xargs with flags that parse, os.Stdin holding the given lines
XargsOn(lines) ==
    /\ args = <<"xargs">>
    /\ flagErr = "none"
    /\ delimiter = <<"\n">>
    /\ stdin = Lines(lines)
    /\ readErrAt = 0 - 1
    /\ cuts = {}
    /\ noRun \in IF lines = <<>> THEN BOOLEAN ELSE {FALSE}

\* the calls of run that reach no dispatcher: another word than xargs, and
\* xargs with -h or with a flag that does not parse
InitOther ==
    /\ \/ args \in OtherArgs \cup {<<"find">>} /\ flagErr = "none"
       \/ args = <<"xargs">> /\ flagErr \in {"help", "error"}
    /\ delimiter = <<"\n">>
    /\ stdin = <<>>
    /\ readErrAt = 0 - 1
    /\ cuts = {}
    /\ noRun = FALSE
    /\ verbose = FALSE
    /\ maxProcs = 1
    /\ replaceString = <<>>
    /\ baseCmd = AppendTemplate
    /\ numArgs = 0

\* Concurrency configurations: canonical tokens, every -P value; -v with the
\* largest -n.
Init ==
    /\ \/ /\ \E n \in 0..MaxTokens : XargsOn(Tokens(n))
          /\ maxProcs \in {-1, 0} \cup 1..MaxProcs
          /\ \/ /\ replaceString = Placeholder
                /\ baseCmd = ReplaceTemplate
                /\ numArgs = 0
                /\ verbose = FALSE
             \/ /\ replaceString = <<>>
                /\ baseCmd = AppendTemplate
                /\ numArgs \in 0..MaxNumArgs
                /\ verbose \in IF numArgs = MaxNumArgs THEN BOOLEAN ELSE {FALSE}
       \/ InitOther
    /\ InitState

\* run lines 14-68: no argument, or the switch over args[0].  xargs goes
\* on in xargsCmd; the other command functions return nil or an error.
RunSwitch ==
    /\ mainpc = "run"
    /\ IF Len(args) >= 1 /\ args[1] = "xargs"
       THEN mainpc' = "parse" /\ exitCode' = exitCode
       ELSE /\ mainpc' = "exited"
            /\ \E failed \in BOOLEAN : exitCode' = RunCode(args, failed)
    /\ UNCHANGED <<params, scanned, baseCmd, inputs, bare, mode, batchSize, i, semaphore, wg, mu,
                   lastErr, g, recOrder, result>>

\* xargsCmd lines 33-38: xargsFlags.Parse
XargsParse ==
    /\ mainpc = "parse"
    /\ mainpc' = IF flagErr = "none" THEN "read" ELSE "xdone"
    /\ result' = IF flagErr = "none" THEN result
                 ELSE IF flagErr = "help" THEN 0 ELSE ErrFlag
    /\ UNCHANGED <<params, scanned, baseCmd, inputs, bare, exitCode, mode, batchSize, i, semaphore,
                   wg, mu, lastErr, g, recOrder>>

\* xargsCmd lines 63-79: the scanner loop, then scanner.Err()
Read ==
    /\ mainpc = "read"
    /\ scanned' = Scan(Delivered, delimiter)
    /\ inputs' = ReadInputs
    /\ mainpc' = PcAfterRead(readErrAt >= 0)
    /\ result' = IF readErrAt >= 0 THEN ErrScan ELSE result
    /\ UNCHANGED <<params, baseCmd, bare, exitCode, mode, batchSize, i, semaphore, wg, mu,
                   lastErr, g, recOrder>>

\* xargsCmd lines 82-87: the two tests of len(inputs) == 0
CheckEmpty ==
    /\ mainpc = "empty"
    /\ mainpc' = IF Len(inputs) = 0 THEN PcIfEmpty(noRun) ELSE "call"
    /\ result' = IF Len(inputs) = 0 /\ noRun THEN 0 ELSE result
    /\ UNCHANGED <<params, scanned, baseCmd, inputs, bare, exitCode, mode, batchSize, i, semaphore,
                   wg, mu, lastErr, g, recOrder>>

\* xargsCmd lines 88-95: the -v line, exec.Command and cmd.Run: the process
\* starts, or the launch fails and cmd.Run's error is returned
BareRun ==
    /\ mainpc = "bare"
    /\ \E started \in BOOLEAN :
          /\ bare' = [cmdArgs |-> BareArgs, runs |-> bare.runs + 1,
                      failed |-> ~started, echoes |-> bare.echoes + Echoes]
          /\ mainpc' = IF started THEN "bareRunning" ELSE "xdone"
          /\ result' = IF started THEN result ELSE ErrBare
    /\ UNCHANGED <<params, scanned, baseCmd, inputs, exitCode, mode, batchSize, i, semaphore, wg,
                   mu, lastErr, g, recOrder>>

\* line 95: the process exits, return cmd.Run()
BareExit ==
    /\ mainpc = "bareRunning"
    /\ \E ok \in BOOLEAN :
          /\ bare' = [bare EXCEPT !.failed = ~ok]
          /\ result' = IF ok THEN 0 ELSE ErrBare
    /\ mainpc' = "xdone"
    /\ UNCHANGED <<params, scanned, baseCmd, inputs, exitCode, mode, batchSize, i, semaphore,
                   wg, mu, lastErr, g, recOrder>>

\* run lines 54-57 and 69: xargsCmd has returned
RunReturn ==
    /\ mainpc \in {"xdone", "done"}
    /\ exitCode = 0 - 1
    /\ exitCode' = RunCode(args, result # 0)
    /\ UNCHANGED <<params, scanned, baseCmd, inputs, bare, mode, batchSize, mainpc, i, semaphore,
                   wg, mu, lastErr, g, recOrder, result>>

\* xargsCmd lines 98-105 calling execute*Mode, and the function's prologue
\* up to the loop's first condition test (lines 110-116 / 157-167).
Call ==
    /\ mainpc = "call"
    /\ mode' = IF replaceString # <<>> THEN "replace" ELSE "append"
    /\ batchSize' = IF replaceString # <<>> THEN batchSize ELSE NormBatchSize(numArgs)
    /\ i' = 0
    /\ mainpc' = IF SemaphoreCap < 0 THEN "panic" ELSE LoopPc(0)
    /\ UNCHANGED <<front, semaphore, wg, mu, lastErr, g, recOrder, result>>

\* semaphore <- struct{}{}
Acquire ==
    /\ mainpc = "acquire"
    /\ SemaphoreCanSend
    /\ semaphore' = semaphore + 1
    /\ mainpc' = "go"
    /\ UNCHANGED <<front, mode, batchSize, i, wg, mu, lastErr, g, recOrder, result>>

\* wg.Add(1); go func(...){...}(arg)
Go ==
    /\ mainpc = "go"
    /\ wg' = wg + 1
    /\ g' = Append(g, [pc |-> "ready", arg |-> GoArg(i), cmdArgs |-> <<>>, runs |-> 0, err |-> "none", failed |-> FALSE, echoes |-> 0])
    /\ mainpc' = PcAfterGo
    /\ UNCHANGED <<front, mode, batchSize, i, semaphore, mu, lastErr, recOrder, result>>

\* ready <- struct{}{} in goroutine j meets <-ready in the loop (unbuffered);
\* the goroutine goes on to build cmdArgs in its copy of baseCmd (local to
\* it); without -v exec.Command follows at once
Ready(j) ==
    /\ mainpc = "recvReady"
    /\ g[j].pc = "ready"
    /\ g' = [g EXCEPT ![j].pc = PcAfterBuild, ![j].cmdArgs = BuildArgs(g[j].arg)]
    /\ baseCmd' = BaseAfterBuild(g[j].arg)
    /\ mainpc' = "next"
    /\ UNCHANGED <<params, scanned, inputs, bare, exitCode, mode, batchSize, i,
                   semaphore, wg, mu, lastErr, recOrder, result>>

\* fmt.Fprintf(os.Stderr, "%s\n", strings.Join(cmdArgs, " ")), then
\* exec.Command
Echo(j) ==
    /\ g[j].pc = "echo"
    /\ g' = [g EXCEPT ![j].pc = "run", ![j].echoes = @ + 1]
    /\ UNCHANGED <<front, mode, batchSize, mainpc, i, semaphore, wg, mu, lastErr,
                   recOrder, result>>

\* loop post statement and condition
LoopNext ==
    /\ mainpc = "next"
    /\ i' = i + Stride
    /\ mainpc' = LoopPc(i + Stride)
    /\ UNCHANGED <<front, mode, batchSize, semaphore, wg, mu, lastErr, g, recOrder, result>>

\* wg.Wait(); return lastErr
Return ==
    /\ mainpc = "wait"
    /\ WaitDone
    /\ result' = lastErr
    /\ mainpc' = "done"
    /\ UNCHANGED <<front, mode, batchSize, i, semaphore, wg, mu, lastErr, g, recOrder>>

----------------------------------------------------------------------------
(* The goroutine body *)

\* cmd.Run() is invoked: the process starts, or the launch fails
Run(j) ==
    /\ g[j].pc = "run"
    /\ \E started \in BOOLEAN :
          g' = IF started
               THEN [g EXCEPT ![j].pc = "running", ![j].runs = @ + 1]
               ELSE [g EXCEPT ![j].pc = PcAfterRun(TRUE), ![j].runs = @ + 1,
                              ![j].err = "launch", ![j].failed = TRUE]
    /\ UNCHANGED <<front, mode, batchSize, mainpc, i, semaphore, wg, mu, lastErr, recOrder, result>>

\* the process exits and cmd.Run() returns nil or an *ExitError
Exit(j) ==
    /\ g[j].pc = "running"
    /\ \E ok \in BOOLEAN :
          g' = IF ok
               THEN [g EXCEPT ![j].pc = PcAfterRun(FALSE)]
               ELSE [g EXCEPT ![j].pc = PcAfterRun(TRUE), ![j].err = "exit",
                              ![j].failed = TRUE]
    /\ UNCHANGED <<front, mode, batchSize, mainpc, i, semaphore, wg, mu, lastErr, recOrder, result>>

\* mu.Lock()
Lock(j) ==
    /\ g[j].pc = "lock"
    /\ mu = 0
    /\ mu' = j
    /\ g' = [g EXCEPT ![j].pc = "write"]
    /\ UNCHANGED <<front, mode, batchSize, mainpc, i, semaphore, wg, lastErr, recOrder, result>>

\* lastErr = err
Write(j) ==
    /\ g[j].pc = "write"
    /\ lastErr' = RecordErr(lastErr, j)
    /\ recOrder' = Append(recOrder, j)
    /\ g' = [g EXCEPT ![j].pc = "unlock"]
    /\ UNCHANGED <<front, mode, batchSize, mainpc, i, semaphore, wg, mu, result>>

\* mu.Unlock(); the if statement ends and err goes out of scope
Unlock(j) ==
    /\ g[j].pc = "unlock"
    /\ mu' = 0
    /\ g' = [g EXCEPT ![j].pc = PcAfterUnlock, ![j].err = "none"]
    /\ UNCHANGED <<front, mode, batchSize, mainpc, i, semaphore, wg, lastErr, recOrder, result>>

\* deferred: <-semaphore
Release(j) ==
    /\ g[j].pc = "release"
    /\ semaphore > 0
    /\ semaphore' = semaphore - 1
    /\ g' = [g EXCEPT ![j].pc = "wgdone"]
    /\ UNCHANGED <<front, mode, batchSize, mainpc, i, wg, mu, lastErr, recOrder, result>>

\* deferred: wg.Done()
WgDone(j) ==
    /\ g[j].pc = "wgdone"
    /\ wg' = wg - 1
    /\ g' = [g EXCEPT ![j].pc = "done"]
    /\ UNCHANGED <<front, mode, batchSize, mainpc, i, semaphore, mu, lastErr, recOrder, result>>

Next ==
    \/ RunSwitch
    \/ XargsParse
    \/ Read
    \/ CheckEmpty
    \/ BareRun
    \/ BareExit
    \/ RunReturn
    \/ Call
    \/ Acquire
    \/ Go
    \/ LoopNext
    \/ Return
    \/ \E j \in 1..Len(g) : Ready(j)
    \/ \E j \in 1..Len(g) : Echo(j)
    \/ \E j \in 1..Len(g) : Run(j)
    \/ \E j \in 1..Len(g) : Exit(j)
    \/ \E j \in 1..Len(g) : Lock(j)
    \/ \E j \in 1..Len(g) : Write(j)
    \/ \E j \in 1..Len(g) : Unlock(j)
    \/ \E j \in 1..Len(g) : Release(j)
    \/ \E j \in 1..Len(g) : WgDone(j)

Spec == Init /\ [][Next]_vars

\* A runnable goroutine is eventually scheduled and a launched process
\* eventually exits: some enabled step is eventually taken.
FairSpec == Spec /\ WF_vars(Next)

\* Job-construction configurations: one Job at a time (-P 1) and every -n
\* from -1 to MaxBuildNumArgs; the canonical inputs up to MaxBuildTokens
\* tokens with scenario A's template, and every token sequence over
\* BuildTokens up to MaxDupTokens tokens with every template of
\* ReplaceTemplates, -n given or not.
BuildTokens == {Str("a"), Str("X")}

\* Replace-mode templates with their placeholder: scenario A's; one with
\* the placeholder twice inside an argument and an argument without it
\* (the lower-case x); one with a two-character placeholder whose
\* occurrences overlap.
ReplaceTemplates ==
    {[cmdArgs |-> ReplaceTemplate, placeholder |-> Placeholder],
     [cmdArgs |-> <<Str("e"), <<"a", "X", "b", "X">>, Str("x")>>,
      placeholder |-> Placeholder],
     [cmdArgs |-> <<Str("e"), <<"X", "X", "X">>>>, placeholder |-> <<"X", "X">>]}

InitBuild ==
    /\ \/ /\ maxProcs = 1
          /\ \/ /\ \E n \in 0..MaxBuildTokens : XargsOn(Tokens(n))
                /\ replaceString = Placeholder
                /\ baseCmd = ReplaceTemplate
                /\ numArgs = 0
                /\ verbose \in BOOLEAN
             \/ /\ \E lines \in SeqsUpTo(BuildTokens, MaxDupTokens) : XargsOn(lines)
                /\ \E t \in ReplaceTemplates :
                      /\ replaceString = t.placeholder
                      /\ baseCmd = t.cmdArgs
                /\ numArgs \in {0, MaxBuildNumArgs}
                /\ verbose = FALSE
             \/ /\ \E lines \in {Tokens(n) : n \in 0..MaxBuildTokens}
                                  \cup SeqsUpTo(BuildTokens, MaxDupTokens) :
                      XargsOn(lines)
                /\ replaceString = <<>>
                /\ baseCmd = AppendTemplate
                /\ numArgs \in {0 - 1} \cup 0..MaxBuildNumArgs
                /\ verbose = FALSE
       \/ InitOther
    /\ InitState

SpecBuild == InitBuild /\ [][Next]_vars

\* Tokenizer configurations: every stream over StreamChars up to MaxStream
\* bytes and the streams of the tests, every delimiter of Delimiters, a
\* read of os.Stdin that fails after any number of bytes or not at all.
StreamChars == {"a", " ", "\n", ","}

Delimiters == {<<"\n">>, <<",">>, <<",", ",">>}

\* "  a  \n\nb\n", " a , b ,c ", "a\r\n", "a,,b,,c"
TestStreams ==
    {<<" ", " ", "a", " ", " ", "\n", "\n", "b", "\n">>,
     <<" ", "a", " ", ",", " ", "b", " ", ",", "c", " ">>,
     <<"a", "\r", "\n">>,
     <<"a", ",", ",", "b", ",", ",", "c">>}

InitTok ==
    /\ \/ /\ args = <<"xargs">>
          /\ flagErr = "none"
          /\ delimiter \in Delimiters
          /\ stdin \in {<<>>} \cup SeqsUpTo(StreamChars, MaxStream) \cup TestStreams
          /\ readErrAt \in (0 - 1)..Len(stdin)
          /\ cuts = {}
          /\ noRun \in BOOLEAN
          /\ verbose \in IF stdin \in TestStreams THEN BOOLEAN ELSE {FALSE}
          /\ maxProcs = 1
          /\ \/ /\ replaceString = Placeholder
                /\ baseCmd = ReplaceTemplate
             \/ /\ replaceString = <<>>
                /\ baseCmd = AppendTemplate
          /\ numArgs = 0
       \/ InitOther
    /\ InitState

SpecTok == InitTok /\ [][Next]_vars

\* Scanner configurations: every stream over ScanChars up to MaxScanStream
\* bytes and "a,,b,,c", a one-byte and a two-byte delimiter, every way of
\* delivering the stream in reads.
ScanChars == {"a", ","}

InitScan ==
    /\ \/ /\ args = <<"xargs">>
          /\ flagErr = "none"
          /\ delimiter \in {<<",">>, <<",", ",">>}
          /\ stdin \in {<<>>} \cup SeqsUpTo(ScanChars, MaxScanStream)
                        \cup {<<"a", ",", ",", "b", ",", ",", "c">>}
          /\ readErrAt = 0 - 1
          /\ cuts \in SUBSET (1..(Len(stdin) - 1))
          /\ noRun = FALSE
          /\ verbose \in BOOLEAN
          /\ maxProcs = 1
          /\ replaceString = <<>>
          /\ baseCmd = AppendTemplate
          /\ numArgs = 0
       \/ InitOther
    /\ InitState

SpecScan == InitScan /\ [][Next]_vars

----------------------------------------------------------------------------
(* Vocabulary of the properties *)

Jobs == 1..Len(g)

Running(j) == g[j].pc = "running"

Acked(j) == g[j].pc # "ready"

Finished(j) == g[j].pc = "done"

Failed(j) == g[j].failed

Launches(j) == g[j].runs

Launched(j) == g[j].runs > 0

Returned == mainpc = "done"

\* xargsCmd has returned, from the dispatcher or before it
XargsReturned == mainpc \in {"done", "xdone"}

\* number of Jobs the input determines
CeilDiv(n, b) == (n + b - 1) \div b

ExpectedJobs ==
    IF replaceString # <<>> THEN Len(inputs)
    ELSE IF numArgs <= 0 THEN 1 ELSE CeilDiv(Len(inputs), numArgs)

----------------------------------------------------------------------------
(* C1: with maxProcs >= 1, the number of goroutines whose process has been *)
(* launched and has not yet completed never exceeds maxProcs.              *)
C1_ConcurrencyCeiling ==
    maxProcs >= 1 => Cardinality({j \in Jobs : Running(j)}) <= maxProcs

C1_Witness ==
    /\ maxProcs = 2
    /\ Len(inputs) > 2
    /\ Cardinality({j \in Jobs : Running(j)}) = 2
    /\ mainpc = "acquire"

(* C2: for Jobs a < b, Job a's ready send has been received by the loop    *)
(* in every state in which the loop holds the semaphore unit of Job b.     *)
C2_AckBeforeNextAcquire ==
    /\ \A b \in Jobs : \A a \in 1..(b - 1) : Acked(a)
    /\ mainpc = "go" => \A a \in Jobs : Acked(a)

\* the loop holds Job 3's unit; Jobs 1 and 2 have acknowledged
C2_Witness ==
    /\ mainpc = "go"
    /\ Len(g) = 2
    /\ Finished(1)
    /\ Running(2)

(* C3: Jobs invoke cmd.Run in increasing sequence order, in every          *)
(* interleaving and for every maxProcs >= 1: in no state has a Job invoked *)
(* cmd.Run while a Job before it has not.                                  *)
C3_LaunchInSequenceOrder ==
    maxProcs >= 1 =>
        \A a, b \in Jobs : a < b /\ Launched(b) => Launched(a)

(* C3 fails for maxProcs = 2: goroutine 1 has sent ready and is preempted  *)
(* before cmd.Run, goroutine 2 is started and launches first.              *)
C3_Reordered ==
    /\ maxProcs = 2
    /\ Len(g) = 2
    /\ Launched(2)
    /\ ~Launched(1)

(* C3 as amended: Jobs acknowledge their start in increasing sequence      *)
(* order for every maxProcs >= 1, and with maxProcs = 1 they also invoke   *)
(* cmd.Run in increasing sequence order.                                   *)
C3_StartInSequenceOrder ==
    maxProcs >= 1 =>
        \A a, b \in Jobs : a < b =>
            /\ Acked(b) => Acked(a)
            /\ maxProcs = 1 /\ Launched(b) => Launched(a)

C3_Witness ==
    /\ maxProcs = 2
    /\ Len(g) = 3
    /\ Finished(1)
    /\ Running(2)
    /\ Acked(3)
    /\ ~Launched(3)

C3_WitnessSequential ==
    /\ maxProcs = 1
    /\ Len(g) = 2
    /\ Finished(1)
    /\ Running(2)

(* C4: no Job is launched twice, also not after a failure, and when the    *)
(* dispatcher has returned every Job of the input was launched once.       *)
C4_ExactlyOnce ==
    /\ \A j \in Jobs : Launches(j) <= 1
    /\ Returned => /\ Len(g) = ExpectedJobs
                   /\ \A j \in 1..ExpectedJobs : Launches(j) = 1

C4_Witness ==
    /\ Returned
    /\ Len(g) = 3
    /\ Failed(1)
    /\ Failed(2)
    /\ ~Failed(3)

(* C5: once some Job has failed (launch failure or nonzero exit), the      *)
(* dispatcher still starts every remaining Job, every Job runs to          *)
(* completion and the dispatcher returns.                                  *)
C5_FailureDoesNotBlock ==
    (\E j \in Jobs : Failed(j)) ~>
        (/\ Returned
         /\ Len(g) = ExpectedJobs
         /\ \A j \in Jobs : Launches(j) = 1 /\ Finished(j))

\* a failing Job before, between and after successful ones
C5_Witness ==
    /\ Returned
    /\ Len(g) = 3
    /\ ~Failed(1)
    /\ Failed(2)
    /\ ~Failed(3)
    /\ \A j \in Jobs : Finished(j)

\* a launch failure and a nonzero exit overlapping, a third Job still to come
C5_WitnessOverlap ==
    /\ maxProcs = 2
    /\ Len(inputs) = 3
    /\ Len(g) = 2
    /\ g[1].err = "launch"
    /\ g[2].err = "exit"
    /\ mainpc = "acquire"

(* C6: when execute*Mode has returned, no Job is running: every goroutine  *)
(* has completed its process and its deferred calls.                       *)
C6_ReturnAfterAllJobs ==
    Returned => \A j \in Jobs : Finished(j)

C6_Witness ==
    /\ Returned
    /\ maxProcs = 2
    /\ Len(g) = 3
    /\ \A j \in Jobs : Finished(j)

(* C7: the returned value is nil exactly when no Job failed, and otherwise *)
(* it is the error of a Job that failed.                                   *)
C7_ResultIffFailure ==
    Returned =>
        /\ (result = 0) <=> (\A j \in Jobs : ~Failed(j))
        /\ result # 0 => result \in Jobs /\ Failed(result)

C7_Witness ==
    /\ Returned
    /\ Len(g) = 3
    /\ result = 2
    /\ Failed(2)
    /\ ~Failed(1)
    /\ ~Failed(3)

C7_WitnessNil ==
    /\ Returned
    /\ Len(g) = 3
    /\ result = 0

(* C8: when several Jobs fail, the returned value is the error that was    *)
(* written to lastErr last, whichever Job that is.                         *)
C8_LastFailureWins ==
    Returned /\ recOrder # <<>> => result = recOrder[Len(recOrder)]

\* the returned error is neither the first recorded nor the lowest-numbered
C8_Witness ==
    /\ Returned
    /\ Len(recOrder) = 2
    /\ recOrder = <<2, 1>>
    /\ result = 1
    /\ Failed(1)
    /\ Failed(2)

C8_WitnessNotLowest ==
    /\ Returned
    /\ recOrder = <<1, 2>>
    /\ result = 2

(* C9: with maxProcs < 1 the dispatcher behaves as with maxProcs = 1: it   *)
(* does not panic and is never stuck before it has returned.               *)
C9_CoercedToOne ==
    maxProcs < 1 /\ mode # "none" => /\ mainpc # "panic"
                                     /\ ~Returned => ENABLED Next

(* C10: append mode, -n B > 0, N >= 1 tokens: ceil(N/B) Jobs, every Job    *)
(* but the last carries B tokens, the last between 1 and B, argv is the    *)
(* template followed by the batch, and the batches in Job order are the    *)
(* contiguous slices of the token sequence.                                *)
Min(a, b) == IF a < b THEN a ELSE b

C10_AppendPartition ==
    Returned /\ mode = "append" /\ numArgs > 0 =>
        /\ Len(g) = CeilDiv(Len(inputs), numArgs)
        /\ \A j \in 1..(Len(g) - 1) : Len(g[j].arg) = numArgs
        /\ Len(g[Len(g)].arg) \in 1..numArgs
        /\ \A j \in Jobs :
              /\ g[j].cmdArgs = baseCmd \o g[j].arg
              /\ g[j].arg = SubSeq(inputs, (j - 1) * numArgs + 1,
                                   Min(j * numArgs, Len(inputs)))
        /\ Concat([j \in Jobs |-> g[j].arg]) = inputs

\* scenario B: five tokens, -n 2: p t1 t2, p t3 t4, p t5
C10_Witness ==
    /\ Returned
    /\ mode = "append"
    /\ numArgs = 2
    /\ Len(inputs) = 5
    /\ Len(g) = 3
    /\ g[1].cmdArgs = <<Str("p"), inputs[1], inputs[2]>>
    /\ g[2].cmdArgs = <<Str("p"), inputs[3], inputs[4]>>
    /\ g[3].cmdArgs = <<Str("p"), inputs[5]>>

(* C11: append mode with -n <= 0 (the default 0 included) and N >= 1       *)
(* tokens: one Job only, and its argv is the template followed by all N    *)
(* tokens in input order.                                                  *)
C11_OneBatchOfAll ==
    mode = "append" /\ numArgs <= 0 =>
        /\ Len(g) <= 1
        /\ \A j \in Jobs : g[j].arg = inputs
        /\ \A j \in Jobs : Acked(j) => g[j].cmdArgs = baseCmd \o inputs
        /\ Returned => Len(g) = 1 /\ Launches(1) = 1

\* the default -n 0 with five tokens: p a b c d e
C11_Witness ==
    /\ Returned
    /\ mode = "append"
    /\ numArgs = 0
    /\ Len(inputs) = 5
    /\ Len(g) = 1
    /\ g[1].cmdArgs = <<Str("p")>> \o Tokens(5)

\* a negative -n
C11_WitnessNegative ==
    /\ Returned
    /\ mode = "append"
    /\ numArgs < 0
    /\ Len(inputs) >= 3
    /\ g[1].cmdArgs = baseCmd \o inputs

(* C12: with a non-empty placeholder the replace dispatcher runs whatever  *)
(* -n is: one Job per token, Job k for token k, and Job k's argv has the   *)
(* template's length, each argument being the template's argument with     *)
(* every leftmost non-overlapping occurrence of the placeholder replaced   *)
(* by token k, compared character by character; an argument without the    *)
(* placeholder is the template's.                                          *)
Occurs(s, old, p) ==
    p + Len(old) - 1 <= Len(s) /\ SubSeq(s, p, p + Len(old) - 1) = old

\* P is the set of the leftmost non-overlapping occurrences of old in s:
\* occurrences, pairwise disjoint, and every occurrence starts inside one
\* of them
LeftmostOccurrences(P, s, old) ==
    /\ \A p \in P : Occurs(s, old, p)
    /\ \A p, q \in P : p < q => p + Len(old) <= q
    /\ \A q \in 1..Len(s) :
          Occurs(s, old, q) => \E p \in P : p <= q /\ q < p + Len(old)

\* s with the occurrences at P cut out and new put in their place
Spliced(s, P, old, new) ==
    Concat([k \in 1..Len(s) |->
               IF k \in P THEN new
               ELSE IF \E p \in P : p < k /\ k < p + Len(old) THEN <<>>
               ELSE <<s[k]>>])

Replaced(r, s, old, new) ==
    \E P \in SUBSET (1..Len(s)) :
        LeftmostOccurrences(P, s, old) /\ r = Spliced(s, P, old, new)

C12_ReplaceOnePerToken ==
    /\ replaceString # <<>> /\ mode # "none" => mode = "replace"
    /\ mode = "replace" =>
          /\ Len(g) <= Len(inputs)
          /\ Returned => Len(g) = Len(inputs)
          /\ \A k \in Jobs :
                /\ g[k].arg = inputs[k]
                /\ Acked(k) =>
                      /\ Len(g[k].cmdArgs) = Len(baseCmd)
                      /\ \A a \in 1..Len(baseCmd) :
                            /\ Replaced(g[k].cmdArgs[a], baseCmd[a],
                                        replaceString, inputs[k])
                            /\ (\A p \in 1..Len(baseCmd[a]) :
                                   ~Occurs(baseCmd[a], replaceString, p))
                               => g[k].cmdArgs[a] = baseCmd[a]

\* -n 3 given with -I X; template e aXbX x, tokens a, X: e aaba x, e aXbX x
C12_Witness ==
    /\ Returned
    /\ mode = "replace"
    /\ numArgs > 0
    /\ inputs = <<Str("a"), Str("X")>>
    /\ Len(g) = 2
    /\ g[1].cmdArgs = <<Str("e"), <<"a", "a", "b", "a">>, Str("x")>>
    /\ g[2].cmdArgs = <<Str("e"), <<"a", "X", "b", "X">>, Str("x")>>

\* overlapping occurrences: XXX with placeholder XX and token a gives aX
C12_WitnessOverlap ==
    /\ Returned
    /\ replaceString = <<"X", "X">>
    /\ inputs = <<Str("a")>>
    /\ g[1].cmdArgs = <<Str("e"), <<"a", "X">>>>

(* C13 as stated: in replace mode no argument of a built argv contains the *)
(* placeholder.                                                            *)
C13_NoPlaceholderInArgv ==
    mode = "replace" =>
        \A k \in Jobs : Acked(k) =>
            \A a \in 1..Len(g[k].cmdArgs) :
                ~Contains(g[k].cmdArgs[a], replaceString)

SharesNoChar(s, t) ==
    \A p \in 1..Len(s) : \A q \in 1..Len(t) : s[p] # t[q]

(* C13 amended: in replace mode, when the token has no character in common *)
(* with the placeholder, no argument of the built argv contains the        *)
(* placeholder.                                                            *)
C13_NoPlaceholderLeft ==
    mode = "replace" =>
        \A k \in Jobs : Acked(k) /\ SharesNoChar(g[k].arg, replaceString) =>
            \A a \in 1..Len(g[k].cmdArgs) :
                ~Contains(g[k].cmdArgs[a], replaceString)

\* template e aXbX x, token a: both occurrences are gone
C13_Witness ==
    /\ mode = "replace"
    /\ baseCmd = <<Str("e"), <<"a", "X", "b", "X">>, Str("x")>>
    /\ Len(g) >= 1
    /\ g[1].arg = Str("a")
    /\ g[1].cmdArgs = <<Str("e"), <<"a", "a", "b", "a">>, Str("x")>>

\* the token is the placeholder: the argv is the template again
C13_WitnessTokenIsPlaceholder ==
    /\ mode = "replace"
    /\ baseCmd = ReplaceTemplate
    /\ Len(g) >= 1
    /\ g[1].arg = Placeholder
    /\ g[1].cmdArgs = ReplaceTemplate

\* token X, placeholder XX, template XXX: the token and the rest form XX
C13_WitnessFormedByToken ==
    /\ mode = "replace"
    /\ replaceString = <<"X", "X">>
    /\ Len(g) >= 1
    /\ g[1].arg = Str("X")
    /\ g[1].cmdArgs = <<Str("e"), <<"X", "X">>>>

(* C14: with maxProcs = 1, when Job b's cmd.Run has been called, cmd.Run   *)
(* of every earlier Job has returned; at most one process runs; Job k      *)
(* carries token k, so the invocations are in token order.                 *)
RunReturned(j) == Launched(j) /\ g[j].pc \notin {"run", "running"}

C14_SequentialAtOne ==
    maxProcs = 1 =>
        /\ \A b \in Jobs : \A a \in 1..(b - 1) : Launched(b) => RunReturned(a)
        /\ Cardinality({j \in Jobs : Running(j)}) <= 1
        /\ mode = "replace" => \A k \in Jobs : g[k].arg = inputs[k]

\* scenario A: tokens a, b, c, template e X, placeholder X: e a, e b, e c
C14_Witness ==
    /\ Returned
    /\ maxProcs = 1
    /\ baseCmd = ReplaceTemplate
    /\ replaceString = Placeholder
    /\ inputs = <<Str("a"), Str("b"), Str("c")>>
    /\ g[1].cmdArgs = <<Str("e"), Str("a")>>
    /\ g[2].cmdArgs = <<Str("e"), Str("b")>>
    /\ g[3].cmdArgs = <<Str("e"), Str("c")>>
    /\ \A j \in Jobs : Launches(j) = 1

\* Job 2's process runs, Job 1's has exited, Job 3 is not yet spawned
C14_WitnessMidway ==
    /\ maxProcs = 1
    /\ Len(inputs) = 3
    /\ Len(g) = 2
    /\ Running(2)
    /\ Finished(1)

(* C15: the scanner ended without error and no token was appended: the     *)
(* dispatcher is not entered; with -r nothing is run and xargsCmd returns  *)
(* nil; without -r cmd.Run is called once on the unchanged cmdArgs and     *)
(* xargsCmd returns its error or nil.                                      *)
ReadDone ==
    /\ Len(args) >= 1
    /\ args[1] = "xargs"
    /\ flagErr = "none"
    /\ mainpc \notin {"run", "parse", "read"}

C15_EmptyInput ==
    ReadDone /\ readErrAt < 0 /\ inputs = <<>> =>
        /\ mode = "none"
        /\ g = <<>>
        /\ mainpc \in {"empty", "bare", "bareRunning", "xdone"}
        /\ noRun => bare.runs = 0 /\ (XargsReturned => result = 0)
        /\ ~noRun /\ XargsReturned =>
              /\ bare.runs = 1
              /\ bare.cmdArgs = baseCmd
              /\ result = IF bare.failed THEN ErrBare ELSE 0

\* white space only on stdin, no -r, -I X: e X is run as it is and fails
C15_Witness ==
    /\ XargsReturned
    /\ stdin = <<" ", "\n">>
    /\ ~noRun
    /\ bare = [cmdArgs |-> ReplaceTemplate, runs |-> 1, failed |-> TRUE,
               echoes |-> Echoes]
    /\ result = ErrBare
    /\ exitCode = ExitError

\* -r on an empty stdin
C15_WitnessNoRun ==
    /\ XargsReturned
    /\ stdin = <<>>
    /\ noRun
    /\ readErrAt < 0
    /\ flagErr = "none"
    /\ args = <<"xargs">>
    /\ result = 0
    /\ exitCode = ExitOK

(* C16: with the default delimiter every token is non-empty, begins and    *)
(* ends with a character that is not white space and holds no newline;     *)
(* there is one token per line that has such a character; the tokens are   *)
(* pieces of the input and, white space aside, spell the input in order.   *)
NotSpace(c) == c \notin WhiteSpace

\* the positions of the first character that is not white space of a line
LineStarts(s) ==
    {k \in 1..Len(s) :
        /\ NotSpace(s[k])
        /\ \A m \in 1..(k - 1) :
              NotSpace(s[m]) => \E n \in (m + 1)..(k - 1) : s[n] = "\n"}

C16_DefaultDelimiterTokens ==
    ReadDone /\ delimiter = <<"\n">> =>
        /\ \A t \in 1..Len(inputs) :
              /\ inputs[t] # <<>>
              /\ NotSpace(inputs[t][1])
              /\ NotSpace(inputs[t][Len(inputs[t])])
              /\ \A p \in 1..Len(inputs[t]) : inputs[t][p] # "\n"
              /\ Contains(Delivered, inputs[t])
        /\ Len(inputs) = Cardinality(LineStarts(Delivered))
        /\ SelectSeq(Concat(inputs), NotSpace) = SelectSeq(Delivered, NotSpace)

\* "  a  \n\nb\n" yields a, b
C16_Witness ==
    /\ ReadDone
    /\ delimiter = <<"\n">>
    /\ stdin = <<" ", " ", "a", " ", " ", "\n", "\n", "b", "\n">>
    /\ readErrAt < 0
    /\ inputs = <<Str("a"), Str("b")>>

\* white space inside a line stays
C16_WitnessInner ==
    /\ ReadDone
    /\ delimiter = <<"\n">>
    /\ stdin = <<" ", "a", " ", "a">>
    /\ readErrAt < 0
    /\ inputs = <<<<"a", " ", "a">>>>

(* C17 as stated: with another delimiter than newline the tokens handed on *)
(* are the scanner's pieces as they are, white space and empty pieces      *)
(* included.                                                               *)
C17_VerbatimPieces ==
    ReadDone /\ delimiter # <<"\n">> => inputs = SplitTokens(Delivered, delimiter)

\* " a , b ,c " with "," is handed on as a, b, c
C17_WitnessTrimmed ==
    /\ ReadDone
    /\ delimiter = <<",">>
    /\ stdin = <<" ", "a", " ", ",", " ", "b", " ", ",", "c", " ">>
    /\ readErrAt < 0
    /\ inputs = <<Str("a"), Str("b"), Str("c")>>

(* C18 as stated: with another delimiter than newline, joining the tokens  *)
(* with the delimiter gives the stream back.                               *)
C18_RoundTrip ==
    ReadDone /\ delimiter # <<"\n">> /\ readErrAt < 0 =>
        Join(inputs, delimiter) = stdin

\* "a," with ",": the scanner itself yields the one piece a
C18_WitnessTrailing ==
    /\ ReadDone
    /\ delimiter = <<",">>
    /\ stdin = <<"a", ",">>
    /\ readErrAt < 0
    /\ SplitTokens(stdin, delimiter) = <<Str("a")>>
    /\ inputs = <<Str("a")>>

(* C19: when the read of os.Stdin fails, after any number of bytes,        *)
(* xargsCmd returns the scanner's error: no goroutine is started, no       *)
(* command is run, the dispatcher is not entered, and run returns 2.       *)
C19_ScanErrorFatal ==
    Len(args) >= 1 /\ args[1] = "xargs" /\ flagErr = "none" /\ readErrAt >= 0 =>
        /\ g = <<>>
        /\ bare.runs = 0
        /\ mode = "none"
        /\ mainpc \in {"run", "parse", "read", "xdone"}
        /\ XargsReturned => result = ErrScan
        /\ exitCode # 0 - 1 => exitCode = ExitError

\* the read fails after a token was appended
C19_Witness ==
    /\ XargsReturned
    /\ readErrAt >= 0
    /\ inputs # <<>>
    /\ result = ErrScan
    /\ g = <<>>
    /\ exitCode = ExitError

(* C20 as stated: run returns 1 when there is no command or help is asked  *)
(* for, 2 when the command function returns an error, 127 for an unknown   *)
(* word, and 0 only when the selected command succeeded.                   *)
C20_DocumentedExitCodes ==
    exitCode # 0 - 1 =>
        /\ Len(args) < 1 => exitCode = 1
        /\ Len(args) >= 1 /\ args[1] \in HelpWords => exitCode = 1
        /\ Len(args) >= 1 /\ args[1] = "xargs" /\ result # 0 => exitCode = 2
        /\ Len(args) >= 1 /\ args[1] \notin Commands \cup HelpWords \cup VersionWords
              => exitCode = 127
        /\ exitCode = 0 =>
              /\ Len(args) >= 1
              /\ args[1] \in Commands \cup VersionWords
              /\ args[1] = "xargs" => result = 0

\* gobox help returns 0
C20_WitnessHelp ==
    /\ args = <<"help">>
    /\ exitCode = ExitOK

\* goroutine j has written its -v line and not yet invoked cmd.Run
EchoedNotLaunched(j) == g[j].echoes > 0 /\ ~Launched(j)

\* a step in which no goroutine other than j invokes cmd.Run
NoOtherLaunch(j) == \A k \in Jobs \ {j} : g'[k].runs = g[k].runs

\* the -v lines written so far: one for each goroutine past line 136, one
\* for the directly run command, none without -v
EchoedOnce ==
    /\ \A j \in Jobs :
          /\ g[j].echoes = IF verbose /\ g[j].pc \notin {"ready", "echo"}
                           THEN 1 ELSE 0
          /\ Launched(j) => g[j].echoes = Echoes
    /\ bare.echoes = IF bare.runs > 0 THEN Echoes ELSE 0

(* C21: with -v every Job's argv line is written exactly once, by the time *)
(* the Job invokes cmd.Run and not again after it; without -v no line is   *)
(* written; with maxProcs = 1 no other Job invokes cmd.Run between a Job's *)
(* line and its own cmd.Run.                                               *)
C21_EchoedOnceBeforeOwnLaunch ==
    /\ []EchoedOnce
    /\ [][maxProcs = 1 =>
             \A j \in Jobs : EchoedNotLaunched(j) => NoOtherLaunch(j)]_vars

\* -v, -P 2: both Jobs have written their line and run their command
C21_Witness ==
    /\ Returned
    /\ verbose
    /\ maxProcs = 2
    /\ Len(g) = 2
    /\ \A j \in Jobs : g[j].echoes = 1 /\ Launches(j) = 1

(* C21 as stated fails for maxProcs = 2: goroutine 1 has written its line  *)
(* and is preempted before cmd.Run; goroutine 2 is started, writes its     *)
(* line and invokes cmd.Run first.  The original statement: no other Job   *)
(* invokes cmd.Run between a Job's line and its own cmd.Run.               *)
C21_NoLaunchBetweenEchoAndRun ==
    [][\A j \in Jobs : EchoedNotLaunched(j) => NoOtherLaunch(j)]_vars

\* goroutine j has not yet run its deferred <-semaphore
HoldsUnit(j) == g[j].pc \notin {"wgdone", "done"}

\* elements in the semaphore channel that no goroutine has been started
\* for: the one sent at line 117/174 until the go statement
UnitInHand == IF mainpc = "go" THEN 1 ELSE 0

\* a step that takes an element out of the semaphore channel is the
\* deferred receive of one goroutine, which gives back one element
ReleasedByItsJob ==
    semaphore' < semaphore =>
        /\ semaphore' = semaphore - 1
        /\ \E j \in Jobs : HoldsUnit(j) /\ g'[j].pc = "wgdone"
        /\ Cardinality({j \in Jobs : HoldsUnit(j) /\ g'[j] # g[j]}) = 1

\* a goroutine that has given its element back does not do so again
ReleasedOnce == \A j \in Jobs : ~HoldsUnit(j) => g'[j].pc \in {"wgdone", "done"}

(* C22: the number of elements in the semaphore channel equals the number  *)
(* of goroutines that have been started and have not yet run their         *)
(* deferred receive (plus the one the loop has sent and not yet handed to  *)
(* a goroutine); every receive is the deferred one of a goroutine, once    *)
(* per goroutine, whether its command succeeded, exited nonzero or failed  *)
(* to launch; the channel is empty when the dispatcher returns.            *)
C22_GateAccounting ==
    /\ [](semaphore = Cardinality({j \in Jobs : HoldsUnit(j)}) + UnitInHand)
    /\ [](Returned => semaphore = 0 /\ \A j \in Jobs : ~HoldsUnit(j))
    /\ [][ReleasedByItsJob /\ ReleasedOnce]_vars

\* a goroutine whose command succeeded and two whose command failed have
\* each given their element back
C22_Witness ==
    /\ Returned
    /\ maxProcs = 2
    /\ Len(g) = 3
    /\ ~Failed(1)
    /\ Failed(2)
    /\ Failed(3)
    /\ semaphore = 0

\* a launch failure on its way to the deferred receive, still counted
C22_WitnessLaunchFailure ==
    /\ maxProcs = 2
    /\ Len(g) = 2
    /\ Finished(1)
    /\ g[2].err = "launch"
    /\ g[2].pc = "lock"
    /\ semaphore = 1

\* goroutine j is between mu.Lock() and mu.Unlock()
InCritical(j) == g[j].pc \in {"write", "unlock"}

\* the step in which the dispatcher reads lastErr for its return value
ReadsLastErr == mainpc = "wait" /\ mainpc' = "done"

(* C23: lastErr is written only by the goroutine that holds mu, so never   *)
(* by two goroutines at once; the dispatcher reads it once, for its return *)
(* value, in a step taken when every goroutine has run to its end, so the  *)
(* value returned is the one left by the last write and is an error when   *)
(* any goroutine recorded one.                                             *)
C23_ResultCellRaceFree ==
    /\ [](\A j \in Jobs : InCritical(j) => mu = j)
    /\ [](Cardinality({j \in Jobs : InCritical(j)}) <= 1)
    /\ [][ReadsLastErr =>
             /\ \A j \in Jobs : Finished(j)
             /\ result' = lastErr
             /\ (recOrder # <<>> => result' = recOrder[Len(recOrder)])]_vars
    /\ [][lastErr' # lastErr =>
             /\ ~Returned
             /\ \E j \in Jobs : g[j].pc = "write" /\ mu = j /\ lastErr' = j]_vars

\* goroutine 1 writes lastErr while goroutine 2, failed too, waits for mu
C23_Witness ==
    /\ maxProcs = 2
    /\ Len(g) = 2
    /\ g[1].pc = "write"
    /\ mu = 1
    /\ g[2].pc = "lock"

\* goroutine j, its command failed, has not yet taken mu
WaitsToWrite(j) == g[j].pc = "lock"

\* every goroutine is started and all but j have run to their end
AloneLeft(j) == mainpc = "wait" /\ \A k \in Jobs \ {j} : Finished(k)

\* a step of the loop or of a goroutine other than j
StepBeside(j) == Next /\ g'[j] = g[j]

(* C24: the value the dispatcher returns is the one written last, each     *)
(* failed Job writing once; with maxProcs >= 2 a failed Job that has not   *)
(* yet taken mu holds nothing the others need: the loop and the other Jobs *)
(* can go on until it alone is left, so that its write comes last.  For    *)
(* each failed Job there is thus a behaviour in which its error is the one *)
(* returned.                                                               *)
C24_AnyFailureCanBeLast ==
    /\ lastErr = IF recOrder = <<>> THEN 0 ELSE recOrder[Len(recOrder)]
    /\ \A k \in 1..Len(recOrder) : recOrder[k] \in Jobs /\ Failed(recOrder[k])
    /\ \A j \in Jobs : Cardinality({k \in 1..Len(recOrder) : recOrder[k] = j}) <= 1
    /\ maxProcs >= 2 =>
          \A j \in Jobs : WaitsToWrite(j) /\ ~AloneLeft(j) => ENABLED StepBeside(j)

\* -P 2, three failed Jobs: the first Job's error is returned
C24_Witness ==
    /\ Returned
    /\ maxProcs = 2
    /\ Len(g) = 3
    /\ \A j \in Jobs : Failed(j)
    /\ result = 1

\* the same input, the second Job's error returned
C24_WitnessSecond ==
    /\ Returned
    /\ maxProcs = 2
    /\ Len(g) = 3
    /\ \A j \in Jobs : Failed(j)
    /\ result = 2

\* the same input, the third Job's error returned
C24_WitnessThird ==
    /\ Returned
    /\ maxProcs = 2
    /\ Len(g) = 3
    /\ \A j \in Jobs : Failed(j)
    /\ result = 3

\* the loop is at its send on the semaphore: tokens remain and every
\* goroutine started so far has been received from on ready
AtGate == mainpc = "acquire"

(* C25: with maxProcs >= 1, whenever the loop is at its send on the        *)
(* semaphore (tokens remain, every started goroutine has acknowledged) and *)
(* the channel holds fewer than maxProcs elements, the send can proceed,   *)
(* whatever the running Jobs do; the go statement and the loop's post      *)
(* statement wait for nothing.  So maxProcs Jobs can run at once.          *)
C25_NoLimitBeyondMaxProcs ==
    maxProcs >= 1 =>
        /\ AtGate => i < Len(inputs) /\ \A j \in Jobs : Acked(j)
        /\ AtGate /\ semaphore < maxProcs => ENABLED Acquire
        /\ mainpc = "go" => ENABLED Go
        /\ mainpc = "next" => ENABLED LoopNext

\* -P 2, two tokens: both Jobs run at once, none left to dispatch
C25_Witness ==
    /\ maxProcs = 2
    /\ Len(inputs) = 2
    /\ mainpc = "wait"
    /\ \A j \in 1..Len(inputs) : j \in Jobs /\ Running(j)

\* -P 2: Job 1 runs, one element is free and the loop is at its send for
\* Job 2
C25_WitnessAdmit ==
    /\ maxProcs = 2
    /\ AtGate
    /\ Len(g) = 1
    /\ Running(1)
    /\ semaphore = 1

\* the positions at which a piece of s begins, P being the occurrences of d
\* that separate: the first byte and the byte after each occurrence, as far
\* as there is a byte
PieceStarts(s, P, d) == {b \in {1} \cup {p + Len(d) : p \in P} : b <= Len(s)}

\* the piece that begins at b: up to the next occurrence or the end of s
PieceFrom(s, P, b) ==
    IF \E p \in P : p >= b
    THEN SubSeq(s, b, (CHOOSE p \in P : p >= b /\ \A q \in P : q >= b => p <= q) - 1)
    ELSE SubSeq(s, b, Len(s))

\* the pieces of s in the order of their positions
Pieces(s, P, d) ==
    [k \in 1..Cardinality(PieceStarts(s, P, d)) |->
        PieceFrom(s, P, CHOOSE b \in PieceStarts(s, P, d) :
                           Cardinality({c \in PieceStarts(s, P, d) : c < b}) = k - 1)]

\* strings.HasSuffix(s, suf)
HasSuffix(s, suf) ==
    Len(s) >= Len(suf) /\ SubSeq(s, Len(s) - Len(suf) + 1, Len(s)) = suf

\* a read of os.Stdin ends inside an occurrence of the delimiter
CutInsideDelimiter ==
    \E p \in 1..Len(stdin) :
        /\ Occurs(stdin, delimiter, p)
        /\ \E c \in cuts : p <= c /\ c < p + Len(delimiter) - 1

(* C26: the tokens the scanner yields with makeDelimiterSplitFunc(d), d    *)
(* not empty, are the pieces of the stream between the leftmost            *)
(* non-overlapping occurrences of d, in order, the bytes after the last of *)
(* them being the last token when the stream does not end with d; they are *)
(* the same wherever the reads of the stream end, inside an occurrence of  *)
(* d or not.                                                               *)
C26_DelimitedPieces ==
    ReadDone /\ delimiter # <<"\n">> /\ readErrAt < 0 =>
        /\ \E P \in SUBSET (1..Len(stdin)) :
              /\ LeftmostOccurrences(P, stdin, delimiter)
              /\ scanned = Pieces(stdin, P, delimiter)
        /\ stdin # <<>> /\ ~HasSuffix(stdin, delimiter) =>
              /\ scanned # <<>>
              /\ HasSuffix(stdin, scanned[Len(scanned)])
              /\ ~Contains(scanned[Len(scanned)], delimiter)
        /\ \A k \in 1..Len(scanned) : ~Contains(scanned[k], delimiter)

\* "a,,b,,c" with ",,", the reads ending inside both delimiters
C26_Witness ==
    /\ ReadDone
    /\ delimiter = <<",", ",">>
    /\ stdin = <<"a", ",", ",", "b", ",", ",", "c">>
    /\ cuts = {2, 5}
    /\ CutInsideDelimiter
    /\ scanned = <<Str("a"), Str("b"), Str("c")>>

\* the loop is at one of its three blocking operations and cannot go on
\* by itself: the semaphore is full, no ready send has been received yet,
\* or goroutines are outstanding at wg.Wait()
LoopBlocked ==
    \/ mainpc = "acquire" /\ ~ENABLED Acquire
    \/ mainpc = "recvReady"
    \/ mainpc = "wait" /\ ~ENABLED Return

\* some goroutine can take a step
SomeJobRunnable ==
    ENABLED (\E j \in Jobs : \/ Ready(j) \/ Echo(j) \/ Run(j) \/ Exit(j) \/ Lock(j)
                             \/ Write(j) \/ Unlock(j) \/ Release(j) \/ WgDone(j))

(* C27: with maxProcs >= 1, every launched process completing and the      *)
(* scheduling fair, the dispatcher, once called, returns, every Job having *)
(* run; and in no state is the loop blocked at the semaphore, at <-ready   *)
(* or at wg.Wait() while no goroutine can take a step.                     *)
C27_DispatcherTerminates ==
    /\ [](maxProcs >= 1 /\ LoopBlocked => SomeJobRunnable)
    /\ (maxProcs >= 1 /\ mainpc = "call") ~>
           (Returned /\ Len(g) = ExpectedJobs /\ \A j \in Jobs : Finished(j))

\* -P 1, three Jobs: the loop waits at the full semaphore for the running
\* Job 2
C27_Witness ==
    /\ maxProcs = 1
    /\ mainpc = "acquire"
    /\ semaphore = 1
    /\ Len(g) = 2
    /\ Finished(1)
    /\ Running(2)

\* and has returned after the third
C27_WitnessReturned ==
    /\ maxProcs = 1
    /\ Returned
    /\ Len(g) = 3
    /\ \A j \in Jobs : Finished(j)

\* goroutine j has been started and its ready send has not been received
Unacked(j) == g[j].pc = "ready"

(* C28: at most one goroutine has been started without the loop having     *)
(* received its ready send, and that goroutine is the one started last;    *)
(* there is one exactly when the loop is at <-ready, so the loop is never  *)
(* at its semaphore send or at its go statement while a ready send is      *)
(* pending, and two goroutines never wait to send on ready.                *)
C28_OneUnackedAtMost ==
    /\ Cardinality({j \in Jobs : Unacked(j)}) <= 1
    /\ \A j \in Jobs : Unacked(j) => j = Len(g)
    /\ (\E j \in Jobs : Unacked(j)) <=> mainpc = "recvReady"
    /\ mainpc \in {"acquire", "go", "next", "wait", "done"} =>
          \A j \in Jobs : Acked(j)

\* -P 2: goroutine 2 has just been started and not yet acknowledged while
\* Job 1 runs
C28_Witness ==
    /\ maxProcs = 2
    /\ mainpc = "recvReady"
    /\ Len(g) = 2
    /\ Running(1)
    /\ Unacked(2)

\* the failed Job started last
LastFailed == CHOOSE j \in Jobs : Failed(j) /\ \A k \in Jobs : Failed(k) => k <= j

(* C29: with maxProcs = 1 the errors are written in the order of the Jobs, *)
(* and when the dispatcher has returned and some Job failed, the value     *)
(* returned is the error of the failed Job started last, in every          *)
(* behaviour.                                                              *)
C29_DeterministicAtOne ==
    maxProcs = 1 =>
        /\ \A a, b \in 1..Len(recOrder) : a < b => recOrder[a] < recOrder[b]
        /\ Returned /\ (\E j \in Jobs : Failed(j)) => result = LastFailed

\* -P 1: Jobs 1 and 2 fail, Job 3 succeeds, the error of Job 2 is returned
C29_Witness ==
    /\ maxProcs = 1
    /\ Returned
    /\ Len(g) = 3
    /\ Failed(1)
    /\ Failed(2)
    /\ ~Failed(3)
    /\ result = 2

\* the tokens goroutine j was started with
OwnTokens(j) ==
    IF mode = "replace" THEN {g[j].arg} ELSE {g[j].arg[k] : k \in 1..Len(g[j].arg)}

\* goroutine j has built its cmdArgs
Built(j) == g[j].pc \notin {"ready"}

\* token t occurs in the argv of goroutine j: as an argument, or inside one
InArgv(t, j) ==
    \E m \in 1..Len(g[j].cmdArgs) : g[j].cmdArgs[m] = t \/ Contains(g[j].cmdArgs[m], t)

\* the argv of goroutine j is made of the template and its own tokens
OwnArgv(j) ==
    /\ g[j].cmdArgs = BuildArgs(g[j].arg)
    /\ \A k \in Jobs \ {j} : \A t \in OwnTokens(k) \ OwnTokens(j) : ~InArgv(t, j)

(* C30: no step changes baseCmd, and no step of the dispatcher changes     *)
(* inputs; every goroutine's cmdArgs, once built, is what the unchanged    *)
(* template gives with the goroutine's own tokens, and holds no token of   *)
(* another goroutine, however many goroutines run at once.                 *)
C30_TemplateAndTokensUnchanged ==
    /\ [][baseCmd' = baseCmd]_vars
    /\ [][mode # "none" => inputs' = inputs]_vars
    /\ [][\A j \in Jobs : Built(j) => g'[j].cmdArgs = g[j].cmdArgs]_vars
    /\ [](mode # "none" => \A j \in Jobs : Built(j) => OwnArgv(j))

\* -I X, -P 2: Jobs 2 and 3 run at once after Job 1, each with its own argv
C30_Witness ==
    /\ maxProcs = 2
    /\ mode = "replace"
    /\ baseCmd = ReplaceTemplate
    /\ Len(g) = 3
    /\ Finished(1)
    /\ Running(2)
    /\ Running(3)
    /\ \A j \in Jobs : g[j].cmdArgs = <<Str("e"), inputs[j]>>

====
